---- MODULE Spec2Model ----
(***************************************************************************)
(* Model of ControladorMantenedores (read-only master-data handlers over a *)
(* Prisma data store) and of ManejadorRespuestas (the response envelope).  *)
(*                                                                         *)
(* JavaScript strings that the code inspects character by character are    *)
(* sequences of one-character strings.  JavaScript values that reach a     *)
(* response body are tagged records [t |-> type, v |-> value] so that      *)
(* undefined, null, numbers, strings, arrays and objects stay distinct.    *)
(* The value of a string is a sequence of pieces: single characters where  *)
(* the code looks inside the string, whole fixed texts elsewhere.          *)
(***************************************************************************)
EXTENDS Integers, Sequences, FiniteSets, TLC

---------------------------------------------------------------------------
(* JavaScript values *)

Undefined == [t |-> "undefined"]
Null == [t |-> "null"]
Bool(b) == [t |-> "boolean", v |-> b]
Num(n) == [t |-> "number", v |-> n]
Str(s) == [t |-> "string", v |-> s]
Arr(s) == [t |-> "array", v |-> s]
Obj(f) == [t |-> "object", v |-> f]

\* a === b
StrictEq(a, b) ==
    /\ a.t = b.t
    /\ (a.t \in {"undefined", "null"} \/ a.v = b.v)

\* a presence test that lets the empty string through
FalsyMal(x) == x.t \in {"undefined", "null"}

\* !x for the values a route or query parameter can take
Falsy(x) ==
    \/ x.t \in {"undefined", "null"}
    \/ (x.t = "string" /\ x.v = <<>>)
    \/ (x.t = "boolean" /\ ~x.v)

\* Array.isArray(x)
IsArray(x) == x.t = "array"

\* JSON.stringify as res.json applies it: a property whose value is undefined
\* is left out of its object; everything else is kept.
RECURSIVE stringify(_)
stringify(x) ==
    CASE x.t = "object" ->
           Obj([k \in {f \in DOMAIN x.v : x.v[f].t # "undefined"} |-> stringify(x.v[k])])
      [] x.t = "array" ->
           Arr([i \in 1..Len(x.v) |-> stringify(x.v[i])])
      [] OTHER -> x

---------------------------------------------------------------------------
(* JavaScript string functions, on sequences of one-character strings *)

Mayusculas == <<"A","B","C","D","E","F","G","H","I","J","K","L","M",
                "N","O","P","Q","R","S","T","U","V","W","X","Y","Z">>
Minusculas == <<"a","b","c","d","e","f","g","h","i","j","k","l","m",
                "n","o","p","q","r","s","t","u","v","w","x","y","z">>
Digitos == <<"0","1","2","3","4","5","6","7","8","9">>
Blancos == {" "}

\* the characters in code-unit order, for comparisons
Ascii == <<" ", "+", "-">> \o Digitos \o Mayusculas \o <<"_">> \o Minusculas

Indice(c, tabla) == CHOOSE i \in 1..Len(tabla) : tabla[i] = c
EnTabla(c, tabla) == \E i \in 1..Len(tabla) : tabla[i] = c

toUpperCaseChar(c) == IF EnTabla(c, Minusculas) THEN Mayusculas[Indice(c, Minusculas)] ELSE c
toLowerCaseChar(c) == IF EnTabla(c, Mayusculas) THEN Minusculas[Indice(c, Mayusculas)] ELSE c

toUpperCase(s) == [i \in 1..Len(s) |-> toUpperCaseChar(s[i])]
toLowerCase(s) == [i \in 1..Len(s) |-> toLowerCaseChar(s[i])]

startsWith(s, p) == Len(p) <= Len(s) /\ SubSeq(s, 1, Len(p)) = p

\* s.includes(sub)
includes(s, sub) ==
    \E i \in 0..(Len(s) - Len(sub)) : SubSeq(s, i + 1, i + Len(sub)) = sub

\* s.replace(p, '') with a string pattern: the first occurrence only
replaceFirst(s, p) ==
    IF ~includes(s, p) THEN s
    ELSE LET i == CHOOSE j \in 0..(Len(s) - Len(p)) :
                    /\ SubSeq(s, j + 1, j + Len(p)) = p
                    /\ \A k \in 0..(j - 1) : SubSeq(s, k + 1, k + Len(p)) # p
         IN SubSeq(s, 1, i) \o SubSeq(s, i + Len(p) + 1, Len(s))

\* the value of a character as a digit of radix r, -1 when it is none
DigitValue(c, r) ==
    LET v == IF EnTabla(c, Digitos) THEN Indice(c, Digitos) - 1
             ELSE IF EnTabla(toLowerCaseChar(c), Minusculas)
                  THEN Indice(toLowerCaseChar(c), Minusculas) + 9
                  ELSE -1
    IN IF v >= 0 /\ v < r THEN v ELSE -1

RECURSIVE TrimStart(_)
TrimStart(s) == IF s # <<>> /\ Head(s) \in Blancos THEN TrimStart(Tail(s)) ELSE s

\* the longest prefix of s made of digits of radix r
RECURSIVE DigitPrefix(_, _)
DigitPrefix(s, r) ==
    IF s # <<>> /\ DigitValue(Head(s), r) >= 0
    THEN <<Head(s)>> \o DigitPrefix(Tail(s), r)
    ELSE <<>>

RECURSIVE DigitsValue(_, _)
DigitsValue(d, r) ==
    IF d = <<>> THEN 0
    ELSE DigitsValue(SubSeq(d, 1, Len(d) - 1), r) * r + DigitValue(d[Len(d)], r)

NaN == [t |-> "number", nan |-> TRUE]
isNaN(x) == "nan" \in DOMAIN x

\* parseInt that reads a leading 0 as the octal prefix
parseIntMal(s) ==
    LET r == IF Len(s) >= 2 /\ s[1] = "0" THEN 8 ELSE 10
        d == DigitPrefix(s, r)
    IN IF d = <<>> THEN NaN ELSE Num(DigitsValue(d, r))

\* parseInt(s) with no radix argument: leading white space is skipped, a sign
\* is read, a 0x or 0X prefix selects radix 16, then the longest run of digits
\* is converted and whatever follows it is ignored; no digit at all gives NaN.
parseInt(s) ==
    LET t0 == TrimStart(s)
        neg == t0 # <<>> /\ Head(t0) = "-"
        t1 == IF t0 # <<>> /\ Head(t0) \in {"+", "-"} THEN Tail(t0) ELSE t0
        hex == Len(t1) >= 2 /\ t1[1] = "0" /\ t1[2] \in {"x", "X"}
        r == IF hex THEN 16 ELSE 10
        t2 == IF hex THEN SubSeq(t1, 3, Len(t1)) ELSE t1
        d == DigitPrefix(t2, r)
    IN IF d = <<>> THEN NaN
       ELSE Num((IF neg THEN -1 ELSE 1) * DigitsValue(d, r))

\* n.toString() for an integer n
RECURSIVE NatToString(_)
NatToString(n) ==
    IF n < 10 THEN <<Digitos[n + 1]>>
    ELSE NatToString(n \div 10) \o <<Digitos[(n % 10) + 1]>>

toString(n) == IF n < 0 THEN <<"-">> \o NatToString(-n) ELSE NatToString(n)

\* a fixed-width field: pads, and cuts what is longer than len
padStartMal(s, len, c) ==
    [i \in 1..len |-> IF i <= len - Len(s) THEN c ELSE s[i - (len - Len(s))]]

\* s.padStart(len, c) with a one-character filler
RECURSIVE padStart(_, _, _)
padStart(s, len, c) == IF Len(s) >= len THEN s ELSE padStart(<<c>> \o s, len, c)

---------------------------------------------------------------------------
(* The data store, as the Prisma client presents it *)

VARIABLES
    materiales,            \* rows of prisma.materiales
    proveedores,           \* rows of prisma.proveedores
    ubicacion,             \* rows of prisma.ubicacion
    temporadas_app,        \* rows of prisma.temporadas_app
    tipo_movimientos_app,  \* rows of prisma.tipo_movimientos_app
    columnasTemporadas,    \* the columns of temporadas_app in the deployed schema
    pc,                    \* "libre", "resumen" (queries in flight) or "hecho"
    manejador,             \* the handler of the current invocation
    req,                   \* its request: [params, query]
    consultas,             \* the queries it has issued, in order
    promesas,              \* obtenerResumenMantenedores: the five promises
    respuestas             \* the responses it has written to res

almacen == <<materiales, proveedores, ubicacion, temporadas_app,
             tipo_movimientos_app, columnasTemporadas>>
vars == <<materiales, proveedores, ubicacion, temporadas_app,
          tipo_movimientos_app, columnasTemporadas,
          pc, manejador, req, consultas, promesas, respuestas>>

\* the most rows the store holds, all tables together
MaxFilas == 2

\* the rows a table is drawn from; ids are primary keys, so no two rows of a
\* table share one
UniversoMateriales ==
    { [id |-> 1, codigo_ranco |-> <<"M","1">>, nombre_material |-> <<"C","a","j","a">>,
       unidad_medida |-> <<"UN">>, frio |-> "Si", activo |-> TRUE],
      [id |-> 2, codigo_ranco |-> <<"M","2">>, nombre_material |-> <<"B","i","n">>,
       unidad_medida |-> <<"KG">>, frio |-> "No", activo |-> FALSE] }

UniversoProveedores ==
    { [id |-> 7, title |-> <<"A","c","m","e">>, activo |-> TRUE],
      [id |-> 12, title |-> <<"P","R","O","V","0","0","7">>, activo |-> TRUE],
      [id |-> 100, title |-> <<"A","C","M","E"," ","2">>, activo |-> TRUE],
      [id |-> 1234, title |-> <<"a","c","m","e"," ","3">>, activo |-> FALSE] }

UniversoUbicaciones ==
    { [id |-> 7, title |-> <<"A","1">>, bodega_deposito |-> <<"B","1">>,
       planta |-> <<"R","A">>, activo |-> TRUE],
      [id |-> 45, title |-> <<"C","1">>, bodega_deposito |-> <<"B","2">>,
       planta |-> <<"C","H">>, activo |-> TRUE],
      [id |-> 1234, title |-> <<"A","2">>, bodega_deposito |-> <<"B","1">>,
       planta |-> <<"R","A">>, activo |-> FALSE] }

UniversoTemporadas ==
    { [id |-> 1, title |-> <<"T","2","4">>, fecha_inicio |-> 2024, fecha_fin |-> 2025,
       activo |-> TRUE, activa |-> TRUE, nombre |-> <<"T","2","4">>],
      [id |-> 2, title |-> <<"T","2","3">>, fecha_inicio |-> 2023, fecha_fin |-> 2024,
       activo |-> FALSE, activa |-> TRUE, nombre |-> <<"N","2","3">>],
      [id |-> 3, title |-> <<"T","2","2">>, fecha_inicio |-> 2022, fecha_fin |-> 2023,
       activo |-> TRUE, activa |-> FALSE, nombre |-> <<"T","2","2">>] }

UniversoTiposMovimiento ==
    { [id |-> 1, title |-> <<"I","N">>, descripcion |-> <<"ingreso">>, activo |-> TRUE],
      [id |-> 2, title |-> <<"O","U","T">>, descripcion |-> <<"salida">>, activo |-> FALSE] }

\* the columns of temporadas_app that the handlers select by name, and the two
\* more that obtenerResumenMantenedores names; whether the schema has the
\* latter is not decided by the controller
ColumnasBaseTemporadas == {"id", "title", "fecha_inicio", "fecha_fin", "activo"}
EsquemasTemporadas ==
    { ColumnasBaseTemporadas,
      ColumnasBaseTemporadas \cup {"activa"},
      ColumnasBaseTemporadas \cup {"activa", "nombre"} }

Restringir(fila, cols) == [c \in (DOMAIN fila) \cap cols |-> fila[c]]

Columnas(modelo) ==
    CASE modelo = "materiales" ->
           {"id", "codigo_ranco", "nombre_material", "unidad_medida", "frio", "activo"}
      [] modelo = "proveedores" -> {"id", "title", "activo"}
      [] modelo = "ubicacion" -> {"id", "title", "bodega_deposito", "planta", "activo"}
      [] modelo = "temporadas_app" -> columnasTemporadas
      [] modelo = "tipo_movimientos_app" -> {"id", "title", "descripcion", "activo"}

Tabla(modelo) ==
    CASE modelo = "materiales" -> materiales
      [] modelo = "proveedores" -> proveedores
      [] modelo = "ubicacion" -> ubicacion
      [] modelo = "temporadas_app" -> temporadas_app
      [] modelo = "tipo_movimientos_app" -> tipo_movimientos_app

\* where-clause conditions: { campo: v } is { campo: { equals: v } }
Igual(v) == [equals |-> v]
Contiene(s) == [contains |-> s, mode |-> "insensitive"]

CumpleCondicion(valor, cond) ==
    IF "contains" \in DOMAIN cond
    THEN IF cond.mode = "insensitive"
         THEN includes(toLowerCase(valor), toLowerCase(cond.contains))
         ELSE includes(valor, cond.contains)
    ELSE valor = cond.equals

Cumple(fila, where) == \A c \in DOMAIN where : CumpleCondicion(fila[c], where[c])

\* the client rejects a query that names a column the model does not have
ConsultaValida(q) == (DOMAIN q.where) \subseteq Columnas(q.modelo)

Coincidencias(q) == { f \in Tabla(q.modelo) : Cumple(f, q.where) }

\* orderBy
ColumnasNumericas == {"id", "fecha_inicio", "fecha_fin"}

RECURSIVE MenorCadena(_, _)
MenorCadena(a, b) ==
    IF b = <<>> THEN FALSE
    ELSE IF a = <<>> THEN TRUE
    ELSE IF Head(a) = Head(b) THEN MenorCadena(Tail(a), Tail(b))
    ELSE Indice(Head(a), Ascii) < Indice(Head(b), Ascii)

MenorValor(campo, a, b) == IF campo \in ColumnasNumericas THEN a < b ELSE MenorCadena(a, b)

RECURSIVE Antes(_, _, _)
Antes(a, b, orderBy) ==
    IF orderBy = <<>> THEN a.id < b.id
    ELSE LET o == Head(orderBy)
             x == IF o.dir = "asc" THEN a[o.campo] ELSE b[o.campo]
             y == IF o.dir = "asc" THEN b[o.campo] ELSE a[o.campo]
         IN IF x = y THEN Antes(a, b, Tail(orderBy)) ELSE MenorValor(o.campo, x, y)

RECURSIVE Ordenar(_, _)
Ordenar(filas, orderBy) ==
    IF filas = {} THEN <<>>
    ELSE LET primero == CHOOSE f \in filas : \A g \in filas \ {f} : Antes(f, g, orderBy)
         IN <<primero>> \o Ordenar(filas \ {primero}, orderBy)

\* the result of findMany, of count, and the rows findFirst may return (it has
\* no orderBy in this controller, so the store picks among the matches)
findMany(q) == [i \in 1..Cardinality(Coincidencias(q)) |->
                   Restringir(Ordenar(Coincidencias(q), q.orderBy)[i], q.select)]
count(q) == Cardinality(Coincidencias(q))
findFirst(q) == { Restringir(f, q.select) : f \in Coincidencias(q) }

---------------------------------------------------------------------------
(* ManejadorRespuestas: each method is res.status(n).json(body) *)

Respuesta(status, body) == [status |-> status, body |-> stringify(body)]

\* an envelope that always carries a total
exitoMal(datos, mensaje) ==
    Respuesta(200, Obj([exito |-> Bool(TRUE),
                        mensaje |-> Str(mensaje),
                        datos |-> datos,
                        total |-> IF IsArray(datos) THEN Num(Len(datos.v)) ELSE Num(0)]))

exito(datos, mensaje) ==
    Respuesta(200, Obj([exito |-> Bool(TRUE),
                        mensaje |-> Str(mensaje),
                        datos |-> datos,
                        total |-> IF IsArray(datos) THEN Num(Len(datos.v)) ELSE Undefined]))

\* an error envelope that also carries the text of the exception
errorMal(mensaje, codigo) ==
    Respuesta(500, Obj([exito |-> Bool(FALSE),
                        mensaje |-> Str(mensaje),
                        codigo |-> Str(codigo),
                        error |-> Str(<<"PrismaClientKnownRequestError">>)]))

error(mensaje, codigo) ==
    Respuesta(500, Obj([exito |-> Bool(FALSE),
                        mensaje |-> Str(mensaje),
                        codigo |-> Str(codigo)]))

validacionFallida(errores, mensaje) ==
    Respuesta(400, Obj([exito |-> Bool(FALSE),
                        mensaje |-> Str(mensaje),
                        codigo |-> Str(<<"VALIDACION_FALLIDA">>),
                        errores |-> errores]))

\* a missing resource answered as an empty success
noEncontradoMal(mensaje) == exito(Null, mensaje)

noEncontrado(mensaje) ==
    Respuesta(404, Obj([exito |-> Bool(FALSE),
                        mensaje |-> Str(mensaje),
                        codigo |-> Str(<<"RECURSO_NO_ENCONTRADO">>)]))

---------------------------------------------------------------------------
(* CONSTANTES (configuracion/constantes): the two static tables *)

PLANTAS ==
    << [clave |-> <<"R","A","N","C","A","G","U","A">>, valor |-> <<"R","A","N","C","A","G","U","A">>],
       [clave |-> <<"C","H","I","M","B","A","R","O","N","G","O">>, valor |-> <<"C","H","I","M","B","A","R","O","N","G","O">>] >>

UNIDADES_MEDIDA ==
    << [clave |-> <<"K","I","L","O","G","R","A","M","O">>, valor |-> <<"k","g">>],
       [clave |-> <<"M","E","T","R","O","_","C","U","B","I","C","O">>, valor |-> <<"m","3">>],
       [clave |-> <<"U","N","I","D","A","D">>, valor |-> <<"u","n">>] >>

---------------------------------------------------------------------------
(* ControladorMantenedores: the pieces of the handlers *)

\* const { activo = true } = req.query
ActivoPorDefecto(activo) == IF activo.t = "undefined" THEN Bool(TRUE) ELSE activo

\* the comparison without its second half
FiltroActivoMal(activo) == StrictEq(activo, Str(<<"t","r","u","e">>))

\* activo === 'true' || activo === true
FiltroActivo(activo) ==
    \/ StrictEq(activo, Str(<<"t","r","u","e">>))
    \/ StrictEq(activo, Bool(TRUE))

\* material.frio === 'Si' || material.frio === 'Sí'
requiere_frio(frio) == frio = "Si" \/ frio = "Sí"

\* `PROV${id.toString().padStart(3, '0')}` and `UB${...}`
codigoProveedor(id) == <<"P","R","O","V">> \o padStart(toString(id), 3, "0")
codigoUbicacion(id) == <<"U","B">> \o padStart(toString(id), 3, "0")

materialFormateado(m) ==
    Obj([id |-> Num(m.id),
         codigo |-> Str(m.codigo_ranco),
         nombre |-> Str(m.nombre_material),
         unidad_medida |-> Str(m.unidad_medida),
         requiere_frio |-> Bool(requiere_frio(m.frio)),
         activo |-> Bool(m.activo)])

proveedorFormateado(p) ==
    Obj([id |-> Num(p.id),
         codigo |-> Str(codigoProveedor(p.id)),
         nombre |-> Str(p.title),
         rut |-> Null,
         contacto |-> Null,
         telefono |-> Null,
         email |-> Null,
         activo |-> Bool(p.activo)])

ubicacionFormateada(u) ==
    Obj([id |-> Num(u.id),
         codigo |-> Str(codigoUbicacion(u.id)),
         nombre |-> Str(u.title),
         bodega |-> Str(u.bodega_deposito),
         planta |-> Str(u.planta),
         tipo |-> Str(<<"bodega">>),
         activo |-> Bool(u.activo)])

\* a season row as findMany returns it (obtenerTemporadas sends the rows as they are)
filaTemporada(f) ==
    Obj([id |-> Num(f.id),
         title |-> Str(f.title),
         fecha_inicio |-> Num(f.fecha_inicio),
         fecha_fin |-> Num(f.fecha_fin),
         activo |-> Bool(f.activo)])

temporadaFormateada(f) ==
    Obj([id |-> Num(f.id),
         codigo |-> Str(f.title),
         nombre |-> Str(f.title),
         fecha_inicio |-> Num(f.fecha_inicio),
         fecha_termino |-> Num(f.fecha_fin),
         activa |-> Bool(f.activo)])

tipoMovimientoFormateado(f) ==
    Obj([id |-> Num(f.id),
         codigo |-> Str(f.title),
         nombre |-> Str(f.title),
         descripcion |-> Str(f.descripcion),
         activo |-> Bool(f.activo)])

\* obtenerProveedorPorCodigo: the where clause for a non-empty codigo
whereClause(codigo) ==
    IF startsWith(codigo, <<"P","R","O","V">>)
    THEN LET id == parseInt(replaceFirst(codigo, <<"P","R","O","V">>))
         IN IF ~isNaN(id)
            THEN [id |-> Igual(id.v), activo |-> Igual(TRUE)]
            ELSE [title |-> Contiene(codigo), activo |-> Igual(TRUE)]
    ELSE [title |-> Contiene(codigo), activo |-> Igual(TRUE)]

Asc(campo) == [campo |-> campo, dir |-> "asc"]
Desc(campo) == [campo |-> campo, dir |-> "desc"]

Consulta(modelo, op, where, select, orderBy) ==
    [modelo |-> modelo, op |-> op, where |-> where, select |-> select, orderBy |-> orderBy]

\* the values findFirst can resolve to: a matching row, or null when none matches
ResultadosFindFirst(q) ==
    IF findFirst(q) = {} THEN {Null} ELSE { [t |-> "object", v |-> f] : f \in findFirst(q) }

---------------------------------------------------------------------------
(* The requests the model sends *)

ValoresActivo ==
    { Undefined, Str(<<"t","r","u","e">>), Str(<<"f","a","l","s","e">>), Str(<<"1">>) }

CodigosProveedor ==
    { Undefined, Str(<<>>),
      Str(<<"P","R","O","V","0","0","7">>), Str(<<"P","R","O","V","7">>),
      Str(<<"P","R","O","V","0","1","2">>), Str(<<"P","R","O","V","1","0","0">>),
      Str(<<"P","R","O","V","1","2","3","4">>),
      Str(<<"P","R","O","V">>), Str(<<"P","R","O","V","7","x">>),
      Str(<<"P","R","O","V","x","7">>), Str(<<"P","R","O","V"," ","7">>),
      Str(<<"P","R","O","V","-","7">>), Str(<<"P","R","O","V","0","x","C">>),
      Str(<<"p","r","o","v","0","0","7">>),
      Str(<<"A","c","m","e">>), Str(<<"a","c","m","e">>), Str(<<"Z">>) }

CodigosMaterial == { <<"M","1">>, <<"M","2">>, <<"X">> }

PlantasPedidas ==
    { Undefined, Str(<<>>), Str(<<"r","a">>), Str(<<"R","A">>), Str(<<"C","H">>), Str(<<"x">>) }

-------------------------------------------------------------------------------------------------------------------------------------------------
(* The handlers.  A handler that awaits one query is one action: the       *)
(* promise it awaits either rejects (the store fails, or the client        *)
(* refuses a where clause the model does not accept) or resolves, and the  *)
(* handler writes its response.                                            *)

Rechaza(q, falla) == falla \/ ~ConsultaValida(q)

Pendiente == [estado |-> "pendiente"]
Rechazada(q) ==
    [estado |-> "rechazada", motivo |-> IF ConsultaValida(q) THEN "almacen" ELSE "validacion"]
Cumplida(valor) == [estado |-> "cumplida", valor |-> valor]

\* the values a query can resolve to
ResultadosConsulta(q) ==
    CASE q.op = "findMany" -> {findMany(q)}
      [] q.op = "count" -> {Num(count(q))}
      [] q.op = "findFirst" -> ResultadosFindFirst(q)

\* the ways the promise of a query can settle
Promesa(q, falla) ==
    IF Rechaza(q, falla) THEN {Rechazada(q)}
    ELSE { Cumplida(v) : v \in ResultadosConsulta(q) }

Termina(nombre, r, qs, ps, resp) ==
    /\ manejador' = nombre
    /\ req' = r
    /\ consultas' = qs
    /\ promesas' = ps
    /\ respuestas' = <<resp>>
    /\ pc' = "hecho"
    /\ UNCHANGED almacen

Peticion(params, query) == [params |-> params, query |-> query]

obtenerPlantas ==
    /\ pc = "libre"
    /\ LET plantas == Arr([i \in DOMAIN PLANTAS |->
                          Obj([codigo |-> Str(PLANTAS[i].valor),
                               nombre |-> Str(PLANTAS[i].valor),
                               descripcion |-> Str(<<"Planta ">> \o PLANTAS[i].valor)])])
       IN Termina("obtenerPlantas", Peticion(<<>>, <<>>), <<>>, <<>>,
                  exito(plantas, <<"Plantas obtenidas exitosamente">>))

obtenerMateriales ==
    /\ pc = "libre"
    /\ \E activoQ \in ValoresActivo, falla \in BOOLEAN :
         LET activo == ActivoPorDefecto(activoQ)
             q == Consulta("materiales", "findMany",
                           [activo |-> Igual(FiltroActivo(activo))],
                           {"id", "codigo_ranco", "nombre_material", "unidad_medida", "frio", "activo"},
                           <<Asc("nombre_material")>>)
         IN \E materialesP \in Promesa(q, falla) :
              Termina("obtenerMateriales", Peticion(<<>>, [activo |-> activoQ]),
                      <<q>>, <<materialesP>>,
                      IF materialesP.estado = "rechazada"
                      THEN error(<<"Error al obtener materiales">>, <<"ERROR_OBTENER_MATERIALES">>)
                      ELSE exito(Arr([i \in DOMAIN materialesP.valor |-> materialFormateado(materialesP.valor[i])]),
                                 <<"Materiales obtenidos exitosamente">>))

obtenerMaterialPorCodigo ==
    /\ pc = "libre"
    /\ \E codigo \in CodigosMaterial, falla \in BOOLEAN :
         LET q == Consulta("materiales", "findFirst",
                           [codigo_ranco |-> Igual(codigo), activo |-> Igual(TRUE)],
                           {"id", "codigo_ranco", "nombre_material", "unidad_medida", "frio", "activo"},
                           <<>>)
         IN \E material \in Promesa(q, falla) :
              Termina("obtenerMaterialPorCodigo", Peticion([codigo |-> Str(codigo)], <<>>),
                      <<q>>, <<material>>,
                      IF material.estado = "rechazada"
                      THEN error(<<"Error al obtener material">>, <<"ERROR_OBTENER_MATERIAL">>)
                      ELSE IF Falsy(material.valor)
                      THEN noEncontrado(<<"Material con código ">> \o codigo \o <<" no encontrado">>)
                      ELSE exito(materialFormateado(material.valor.v),
                                 <<"Material obtenido exitosamente">>))

obtenerProveedores ==
    /\ pc = "libre"
    /\ \E activoQ \in ValoresActivo, falla \in BOOLEAN :
         LET activo == ActivoPorDefecto(activoQ)
             q == Consulta("proveedores", "findMany",
                           [activo |-> Igual(FiltroActivo(activo))],
                           {"id", "title", "activo"},
                           <<Asc("title")>>)
         IN \E proveedoresP \in Promesa(q, falla) :
              Termina("obtenerProveedores", Peticion(<<>>, [activo |-> activoQ]),
                      <<q>>, <<proveedoresP>>,
                      IF proveedoresP.estado = "rechazada"
                      THEN error(<<"Error al obtener proveedores">>, <<"ERROR_OBTENER_PROVEEDORES">>)
                      ELSE exito(Arr([i \in DOMAIN proveedoresP.valor |-> proveedorFormateado(proveedoresP.valor[i])]),
                                 <<"Proveedores obtenidos exitosamente">>))

obtenerProveedorPorCodigo ==
    /\ pc = "libre"
    /\ \E codigo \in CodigosProveedor, falla \in BOOLEAN :
         LET r == Peticion([codigo |-> codigo], <<>>)
         IN IF Falsy(codigo)
            THEN /\ ~falla
                 /\ Termina("obtenerProveedorPorCodigo", r, <<>>, <<>>,
                            validacionFallida(Arr(<<Str(<<"Código de proveedor requerido">>)>>),
                                              <<"Datos de entrada inválidos">>))
            ELSE LET q == Consulta("proveedores", "findFirst", whereClause(codigo.v),
                                   {"id", "title", "activo"}, <<>>)
                 IN \E proveedor \in Promesa(q, falla) :
                      Termina("obtenerProveedorPorCodigo", r, <<q>>, <<proveedor>>,
                              IF proveedor.estado = "rechazada"
                              THEN error(<<"Error al obtener proveedor">>, <<"ERROR_OBTENER_PROVEEDOR">>)
                              ELSE IF Falsy(proveedor.valor)
                              THEN noEncontrado(<<"Proveedor con código ">> \o codigo.v
                                                \o <<" no encontrado">>)
                              ELSE exito(proveedorFormateado(proveedor.valor.v),
                                         <<"Proveedor obtenido exitosamente">>))

obtenerUbicaciones ==
    /\ pc = "libre"
    /\ \E activoQ \in ValoresActivo, falla \in BOOLEAN :
         LET activo == ActivoPorDefecto(activoQ)
             q == Consulta("ubicacion", "findMany",
                           [activo |-> Igual(FiltroActivo(activo))],
                           {"id", "title", "bodega_deposito", "planta", "activo"},
                           <<Asc("planta"), Asc("bodega_deposito"), Asc("title")>>)
         IN \E ubicaciones \in Promesa(q, falla) :
              Termina("obtenerUbicaciones", Peticion(<<>>, [activo |-> activoQ]),
                      <<q>>, <<ubicaciones>>,
                      IF ubicaciones.estado = "rechazada"
                      THEN error(<<"Error al obtener ubicaciones">>, <<"ERROR_OBTENER_UBICACIONES">>)
                      ELSE exito(Arr([i \in DOMAIN ubicaciones.valor |-> ubicacionFormateada(ubicaciones.valor[i])]),
                                 <<"Ubicaciones obtenidas exitosamente">>))

obtenerUbicacionesPorPlanta ==
    /\ pc = "libre"
    /\ \E planta \in PlantasPedidas, activoQ \in ValoresActivo, falla \in BOOLEAN :
         LET activo == ActivoPorDefecto(activoQ)
             r == Peticion([planta |-> planta], [activo |-> activoQ])
         IN IF Falsy(planta)
            THEN /\ ~falla
                 /\ Termina("obtenerUbicacionesPorPlanta", r, <<>>, <<>>,
                            validacionFallida(Arr(<<Str(<<"Planta requerida">>)>>),
                                              <<"Datos de entrada inválidos">>))
            ELSE LET q == Consulta("ubicacion", "findMany",
                                   [planta |-> Igual(toUpperCase(planta.v)),
                                    activo |-> Igual(FiltroActivo(activo))],
                                   {"id", "title", "bodega_deposito", "planta", "activo"},
                                   <<Asc("bodega_deposito"), Asc("title")>>)
                 IN \E ubicaciones \in Promesa(q, falla) :
                      Termina("obtenerUbicacionesPorPlanta", r, <<q>>, <<ubicaciones>>,
                              IF ubicaciones.estado = "rechazada"
                              THEN error(<<"Error al obtener ubicaciones por planta">>,
                                         <<"ERROR_OBTENER_UBICACIONES_PLANTA">>)
                              ELSE exito(Arr([i \in DOMAIN ubicaciones.valor |-> ubicacionFormateada(ubicaciones.valor[i])]),
                                         <<"Ubicaciones de planta ">> \o toUpperCase(planta.v)
                                         \o <<" obtenidas exitosamente">>))

obtenerTemporadas ==
    /\ pc = "libre"
    /\ \E activoQ \in ValoresActivo, falla \in BOOLEAN :
         LET activo == ActivoPorDefecto(activoQ)
             q == Consulta("temporadas_app", "findMany",
                           [activo |-> Igual(FiltroActivo(activo))],
                           {"id", "title", "fecha_inicio", "fecha_fin", "activo"},
                           <<Desc("fecha_inicio")>>)
         IN \E temporadas \in Promesa(q, falla) :
              Termina("obtenerTemporadas", Peticion(<<>>, [activo |-> activoQ]),
                      <<q>>, <<temporadas>>,
                      IF temporadas.estado = "rechazada"
                      THEN error(<<"Error al obtener temporadas">>, <<"ERROR_OBTENER_TEMPORADAS">>)
                      ELSE exito(Arr([i \in DOMAIN temporadas.valor |-> filaTemporada(temporadas.valor[i])]),
                                 <<"Temporadas obtenidas exitosamente">>))

obtenerTemporadaActiva ==
    /\ pc = "libre"
    /\ \E falla \in BOOLEAN :
         LET q == Consulta("temporadas_app", "findFirst",
                           [activo |-> Igual(TRUE)],
                           {"id", "title", "fecha_inicio", "fecha_fin", "activo"},
                           <<>>)
         IN \E temporadaActiva \in Promesa(q, falla) :
              Termina("obtenerTemporadaActiva", Peticion(<<>>, <<>>),
                      <<q>>, <<temporadaActiva>>,
                      IF temporadaActiva.estado = "rechazada"
                      THEN error(<<"Error al obtener temporada activa">>,
                                 <<"ERROR_OBTENER_TEMPORADA_ACTIVA">>)
                      ELSE IF Falsy(temporadaActiva.valor)
                      THEN noEncontrado(<<"No hay temporada activa configurada">>)
                      ELSE exito(temporadaFormateada(temporadaActiva.valor.v),
                                 <<"Temporada activa obtenida exitosamente">>))

obtenerTiposMovimiento ==
    /\ pc = "libre"
    /\ \E activoQ \in ValoresActivo, falla \in BOOLEAN :
         LET activo == ActivoPorDefecto(activoQ)
             q == Consulta("tipo_movimientos_app", "findMany",
                           [activo |-> Igual(FiltroActivo(activo))],
                           {"id", "title", "descripcion", "activo"},
                           <<Asc("title")>>)
         IN \E tiposMovimiento \in Promesa(q, falla) :
              Termina("obtenerTiposMovimiento", Peticion(<<>>, [activo |-> activoQ]),
                      <<q>>, <<tiposMovimiento>>,
                      IF tiposMovimiento.estado = "rechazada"
                      THEN error(<<"Error al obtener tipos de movimiento">>,
                                 <<"ERROR_OBTENER_TIPOS_MOVIMIENTO">>)
                      ELSE exito(Arr([i \in DOMAIN tiposMovimiento.valor |-> tipoMovimientoFormateado(tiposMovimiento.valor[i])]),
                                 <<"Tipos de movimiento obtenidos exitosamente">>))

\* clave.toLowerCase().replace(/_/g, ' ')
nombreUnidad(clave) ==
    [i \in 1..Len(clave) |-> IF clave[i] = "_" THEN " " ELSE toLowerCaseChar(clave[i])]

obtenerUnidadesMedida ==
    /\ pc = "libre"
    /\ LET unidadesMedida == Arr([i \in DOMAIN UNIDADES_MEDIDA |->
                                 Obj([codigo |-> Str(UNIDADES_MEDIDA[i].valor),
                                      nombre |-> Str(nombreUnidad(UNIDADES_MEDIDA[i].clave)),
                                      descripcion |-> Str(UNIDADES_MEDIDA[i].valor)])])
       IN Termina("obtenerUnidadesMedida", Peticion(<<>>, <<>>), <<>>, <<>>,
                  exito(unidadesMedida, <<"Unidades de medida obtenidas exitosamente">>))

---------------------------------------------------------------------------
(* obtenerResumenMantenedores: five queries in flight at once, joined by    *)
(* Promise.all.  The action obtenerResumenMantenedores issues the five;    *)
(* ResolverConsultaResumen settles one of them and runs what Promise.all   *)
(* and the handler do at that moment.                                      *)

consultasResumen ==
    << Consulta("materiales", "count", [activo |-> Igual(TRUE)], {}, <<>>),
       Consulta("proveedores", "count", [activo |-> Igual(TRUE)], {}, <<>>),
       Consulta("ubicacion", "count", [activo |-> Igual(TRUE)], {}, <<>>),
       Consulta("temporadas_app", "findFirst", [activa |-> Igual(TRUE)],
                columnasTemporadas, <<>>),
       Consulta("tipo_movimientos_app", "count", [activo |-> Igual(TRUE)], {}, <<>>) >>

\* fila.campo: undefined when the row has no such property
Propiedad(fila, campo) == IF campo \in DOMAIN fila THEN Str(fila[campo]) ELSE Undefined

resumen(valores) ==
    Obj([materiales |-> valores[1],
         proveedores |-> valores[2],
         ubicaciones |-> valores[3],
         tiposMovimiento |-> valores[5],
         plantas |-> Num(Len(PLANTAS)),
         unidadesMedida |-> Num(Len(UNIDADES_MEDIDA)),
         temporadaActiva |-> IF Falsy(valores[4]) THEN Null
                             ELSE Propiedad(valores[4].v, "nombre")])

obtenerResumenMantenedores ==
    /\ pc = "libre"
    /\ manejador' = "obtenerResumenMantenedores"
    /\ req' = Peticion(<<>>, <<>>)
    /\ consultas' = consultasResumen
    /\ promesas' = [i \in 1..Len(consultasResumen) |-> Pendiente]
    /\ respuestas' = <<>>
    /\ pc' = "resumen"
    /\ UNCHANGED almacen

\* Promise.all has rejected once one of its promises has
PromiseAllRechazada(ps) == \E j \in DOMAIN ps : ps[j].estado = "rechazada"
PromiseAllCumplida(ps) == \A j \in DOMAIN ps : ps[j].estado = "cumplida"
Asentadas(ps) == \A j \in DOMAIN ps : ps[j].estado # "pendiente"

\* a join that answers on every rejection
RespuestasResumenMal(antes, ps) ==
    IF \E j \in DOMAIN ps : ps[j].estado = "rechazada" /\ antes[j].estado = "pendiente"
    THEN <<error(<<"Error al obtener resumen de mantenedores">>,
                 <<"ERROR_OBTENER_RESUMEN_MANTENEDORES">>)>>
    ELSE IF PromiseAllCumplida(ps)
    THEN <<exito(resumen([j \in DOMAIN ps |-> ps[j].valor]),
                 <<"Resumen de mantenedores obtenido exitosamente">>)>>
    ELSE <<>>

\* what the handler writes when promise i settles and the promises become ps
RespuestasResumen(antes, ps) ==
    IF PromiseAllRechazada(ps)
    THEN IF PromiseAllRechazada(antes) THEN <<>>
         ELSE <<error(<<"Error al obtener resumen de mantenedores">>,
                      <<"ERROR_OBTENER_RESUMEN_MANTENEDORES">>)>>
    ELSE IF PromiseAllCumplida(ps)
    THEN <<exito(resumen([j \in DOMAIN ps |-> ps[j].valor]),
                 <<"Resumen de mantenedores obtenido exitosamente">>)>>
    ELSE <<>>

ResolverConsultaResumen ==
    /\ pc = "resumen"
    /\ \E i \in DOMAIN promesas, falla \in BOOLEAN :
         /\ promesas[i].estado = "pendiente"
         /\ \E resultado \in Promesa(consultas[i], falla) :
              LET ps == [promesas EXCEPT ![i] = resultado]
              IN /\ promesas' = ps
                 /\ respuestas' = respuestas \o RespuestasResumen(promesas, ps)
                 /\ pc' = IF Asentadas(ps) THEN "hecho" ELSE "resumen"
    /\ UNCHANGED <<almacen, manejador, req, consultas>>

\* the invocation is over; the controller keeps nothing of it
Terminar ==
    /\ pc = "hecho"
    /\ pc' = "libre"
    /\ manejador' = "ninguno"
    /\ req' = Peticion(<<>>, <<>>)
    /\ consultas' = <<>>
    /\ promesas' = <<>>
    /\ respuestas' = <<>>
    /\ UNCHANGED almacen

---------------------------------------------------------------------------

Init ==
    /\ materiales \in SUBSET UniversoMateriales
    /\ proveedores \in SUBSET UniversoProveedores
    /\ ubicacion \in SUBSET UniversoUbicaciones
    /\ columnasTemporadas \in EsquemasTemporadas
    /\ temporadas_app \in { { Restringir(f, columnasTemporadas) : f \in S } :
                              S \in SUBSET UniversoTemporadas }
    /\ tipo_movimientos_app \in SUBSET UniversoTiposMovimiento
    /\ Cardinality(materiales) + Cardinality(proveedores) + Cardinality(ubicacion)
         + Cardinality(temporadas_app) + Cardinality(tipo_movimientos_app) <= MaxFilas
    /\ pc = "libre"
    /\ manejador = "ninguno"
    /\ req = Peticion(<<>>, <<>>)
    /\ consultas = <<>>
    /\ promesas = <<>>
    /\ respuestas = <<>>

Next ==
    \/ obtenerPlantas
    \/ obtenerMateriales
    \/ obtenerMaterialPorCodigo
    \/ obtenerProveedores
    \/ obtenerProveedorPorCodigo
    \/ obtenerUbicaciones
    \/ obtenerUbicacionesPorPlanta
    \/ obtenerTemporadas
    \/ obtenerTemporadaActiva
    \/ obtenerTiposMovimiento
    \/ obtenerUnidadesMedida
    \/ obtenerResumenMantenedores
    \/ ResolverConsultaResumen
    \/ Terminar

Spec == Init /\ [][Next]_vars

---------------------------------------------------------------------------
(* Properties *)

R == respuestas[1]
Campos(r) == DOMAIN r.body.v
Campo(r, k) == r.body.v[k]
UnaRespuesta == Len(respuestas) = 1

\* a parameter that is missing or the empty string
Ausente(x) == x.t = "undefined" \/ (x.t = "string" /\ x.v = <<>>)

ParametroAusente ==
    \/ (manejador = "obtenerProveedorPorCodigo" /\ Ausente(req.params.codigo))
    \/ (manejador = "obtenerUbicacionesPorPlanta" /\ Ausente(req.params.planta))

AlgunaRechazada == \E i \in DOMAIN promesas : promesas[i].estado = "rechazada"
TodasCumplidas == promesas # <<>> /\ \A i \in DOMAIN promesas : promesas[i].estado = "cumplida"

Listados == {"obtenerMateriales", "obtenerProveedores", "obtenerUbicaciones",
             "obtenerUbicacionesPorPlanta", "obtenerTemporadas", "obtenerTiposMovimiento"}
Busquedas == {"obtenerMaterialPorCodigo", "obtenerProveedorPorCodigo", "obtenerTemporadaActiva"}

\* C1, as the claim states it: with codigo (supplier by code) or planta
\* (locations by plant) missing or empty, the handler answers 400 with code
\* VALIDATION_FAILED and issues no query.
C1_CodigoValidationFailed ==
    ParametroAusente =>
        /\ UnaRespuesta
        /\ R.status = 400
        /\ Campo(R, "codigo") = Str(<<"VALIDATION_FAILED">>)
        /\ consultas = <<>>

\* C1, amended: with codigo or planta missing or empty, the handler answers
\* 400 with exito false and code VALIDACION_FALLIDA, and issues no query.
C1_ValidacionSinConsulta ==
    ParametroAusente =>
        /\ UnaRespuesta
        /\ R.status = 400
        /\ Campo(R, "exito") = Bool(FALSE)
        /\ Campo(R, "codigo") = Str(<<"VALIDACION_FALLIDA">>)
        /\ consultas = <<>>
        /\ promesas = <<>>

C1_Witness ==
    /\ manejador = "obtenerUbicacionesPorPlanta"
    /\ req.params.planta = Str(<<>>)
    /\ UnaRespuesta
    /\ R.status = 400

\* C2: in the summary handler, whatever subset of the five queries fails and in
\* whatever order they settle, at most one response is written; once a query
\* has failed there is exactly one, a 500 with code
\* ERROR_OBTENER_RESUMEN_MANTENEDORES and no datos; and a 200 is written only
\* when all five queries have succeeded.
C2_ResumenFalloUnico ==
    manejador = "obtenerResumenMantenedores" =>
        /\ Len(respuestas) <= 1
        /\ AlgunaRechazada =>
             /\ UnaRespuesta
             /\ R.status = 500
             /\ Campo(R, "exito") = Bool(FALSE)
             /\ Campo(R, "codigo") = Str(<<"ERROR_OBTENER_RESUMEN_MANTENEDORES">>)
             /\ "datos" \notin Campos(R)
        /\ (UnaRespuesta /\ R.status = 200) =>
             /\ TodasCumplidas
             /\ Campo(R, "datos").t = "object"
        /\ (UnaRespuesta /\ R.status # 200) => AlgunaRechazada

C2_Witness ==
    /\ manejador = "obtenerResumenMantenedores"
    /\ pc = "hecho"
    /\ Cardinality({i \in DOMAIN promesas : promesas[i].estado = "rechazada"}) = 2
    /\ Cardinality({i \in DOMAIN promesas : promesas[i].estado = "cumplida"}) = 3
    /\ UnaRespuesta
    /\ R.status = 500

\* the error code of each handler
CodigoDeError ==
    [obtenerPlantas |-> "ERROR_OBTENER_PLANTAS",
     obtenerMateriales |-> "ERROR_OBTENER_MATERIALES",
     obtenerMaterialPorCodigo |-> "ERROR_OBTENER_MATERIAL",
     obtenerProveedores |-> "ERROR_OBTENER_PROVEEDORES",
     obtenerProveedorPorCodigo |-> "ERROR_OBTENER_PROVEEDOR",
     obtenerUbicaciones |-> "ERROR_OBTENER_UBICACIONES",
     obtenerUbicacionesPorPlanta |-> "ERROR_OBTENER_UBICACIONES_PLANTA",
     obtenerTemporadas |-> "ERROR_OBTENER_TEMPORADAS",
     obtenerTemporadaActiva |-> "ERROR_OBTENER_TEMPORADA_ACTIVA",
     obtenerTiposMovimiento |-> "ERROR_OBTENER_TIPOS_MOVIMIENTO",
     obtenerUnidadesMedida |-> "ERROR_OBTENER_UNIDADES_MEDIDA",
     obtenerResumenMantenedores |-> "ERROR_OBTENER_RESUMEN_MANTENEDORES"]

\* C3: in every handler, once a query has thrown there is exactly one
\* response: 500, exito false, the handler's own code, and a body of exito,
\* mensaje and codigo only; and each query was issued once (no retry).
C3_ErrorGenerico ==
    (manejador # "ninguno" /\ AlgunaRechazada) =>
        /\ UnaRespuesta
        /\ R.status = 500
        /\ Campos(R) = {"exito", "mensaje", "codigo"}
        /\ Campo(R, "exito") = Bool(FALSE)
        /\ Campo(R, "codigo") = Str(<<CodigoDeError[manejador]>>)
        /\ Len(consultas) = IF manejador = "obtenerResumenMantenedores" THEN 5 ELSE 1
        /\ Len(promesas) = Len(consultas)

C3_Witness ==
    /\ manejador = "obtenerProveedorPorCodigo"
    /\ AlgunaRechazada
    /\ UnaRespuesta
    /\ R.status = 500

\* the code is PROV followed by one or more decimal digits
EsProvDigitos(c) ==
    /\ Len(c) > 4
    /\ SubSeq(c, 1, 4) = <<"P","R","O","V">>
    /\ \A i \in 5..Len(c) : c[i] \in {"0","1","2","3","4","5","6","7","8","9"}

RECURSIVE Decimal(_)
Decimal(d) ==
    IF d = <<>> THEN 0
    ELSE 10 * Decimal(SubSeq(d, 1, Len(d) - 1))
         + (CHOOSE n \in 0..9 : Digitos[n + 1] = d[Len(d)])

\* C4, as the claim states it: for a non-empty code, supplier by code looks up
\* by numeric id exactly when the code is PROV followed by one or more digits
\* (the id being the number they denote), and otherwise by case-insensitive
\* substring match of the whole code on the name; both among active rows only.
C4_IdSoloConProvDigitos ==
    (manejador = "obtenerProveedorPorCodigo" /\ Len(consultas) = 1) =>
        LET c == req.params.codigo.v
            w == consultas[1].where
        IN IF EsProvDigitos(c)
           THEN w = [id |-> Igual(Decimal(SubSeq(c, 5, Len(c)))), activo |-> Igual(TRUE)]
           ELSE w = [title |-> Contiene(c), activo |-> Igual(TRUE)]

\* the rows a listing handler chooses from, before the activo filter
FilasListado ==
    CASE manejador = "obtenerMateriales" -> materiales
      [] manejador = "obtenerProveedores" -> proveedores
      [] manejador = "obtenerUbicaciones" -> ubicacion
      [] manejador = "obtenerUbicacionesPorPlanta" ->
           { f \in ubicacion : f.planta = toUpperCase(req.params.planta.v) }
      [] manejador = "obtenerTemporadas" -> temporadas_app
      [] manejador = "obtenerTiposMovimiento" -> tipo_movimientos_app

IdsDatos(r) == { Campo(r, "datos").v[i].v.id.v : i \in 1..Len(Campo(r, "datos").v) }
ActivosDatos(r) == { Campo(r, "datos").v[i].v.activo.v : i \in 1..Len(Campo(r, "datos").v) }

\* C5: a listing handler that answers 200 returns, with activo omitted, the
\* active rows that match its other filters and only those; with activo the
\* string "false", the inactive rows and only those.
C5_ActivoPorDefecto ==
    (manejador \in Listados /\ UnaRespuesta /\ R.status = 200) =>
        /\ req.query.activo = Undefined =>
             /\ ActivosDatos(R) \subseteq {TRUE}
             /\ IdsDatos(R) = { f.id : f \in { g \in FilasListado : g.activo } }
        /\ req.query.activo = Str(<<"f","a","l","s","e">>) =>
             /\ ActivosDatos(R) \subseteq {FALSE}
             /\ IdsDatos(R) = { f.id : f \in { g \in FilasListado : ~g.activo } }

C5_Witness ==
    /\ manejador = "obtenerUbicacionesPorPlanta"
    /\ req.query.activo = Str(<<"f","a","l","s","e">>)
    /\ UnaRespuesta
    /\ R.status = 200
    /\ IdsDatos(R) # {}

\* C6: a single-entity lookup whose query resolved answers 404 with exito
\* false and code RECURSO_NO_ENCONTRADO exactly when no active row matches,
\* and otherwise 200 with one matching entity in datos; it answers 404 in no
\* other case; and a listing handler never answers 404: when its query
\* resolves it answers 200 with a list.
C6_NoEncontrado ==
    /\ (manejador \in Busquedas /\ UnaRespuesta) =>
         /\ R.status = 404 => (TodasCumplidas /\ Coincidencias(consultas[1]) = {})
         /\ TodasCumplidas =>
              /\ \A f \in Coincidencias(consultas[1]) : f.activo
              /\ IF Coincidencias(consultas[1]) = {}
                 THEN /\ R.status = 404
                      /\ Campo(R, "exito") = Bool(FALSE)
                      /\ Campo(R, "codigo") = Str(<<"RECURSO_NO_ENCONTRADO">>)
                      /\ "datos" \notin Campos(R)
                 ELSE /\ R.status = 200
                      /\ Campo(R, "datos").t = "object"
                      /\ Campo(R, "datos").v.id.v \in { f.id : f \in Coincidencias(consultas[1]) }
    /\ (manejador \in Listados /\ UnaRespuesta) =>
         /\ R.status # 404
         /\ TodasCumplidas => (R.status = 200 /\ Campo(R, "datos").t = "array")

C6_Witness ==
    /\ manejador = "obtenerProveedorPorCodigo"
    /\ proveedores # {}
    /\ UnaRespuesta
    /\ R.status = 404

\* C7: in every success response, total is present and equals the number of
\* elements of datos when datos is a list, and is absent when it is not.
C7_TotalDeLista ==
    (UnaRespuesta /\ Campo(R, "exito") = Bool(TRUE)) =>
        IF Campo(R, "datos").t = "array"
        THEN "total" \in Campos(R) /\ Campo(R, "total") = Num(Len(Campo(R, "datos").v))
        ELSE "total" \notin Campos(R)

C7_Witness ==
    /\ manejador = "obtenerProveedores"
    /\ UnaRespuesta
    /\ R.status = 200
    /\ Len(Campo(R, "datos").v) = 2
    /\ Campo(R, "total") = Num(2)

\* codigo is prefijo followed by n in decimal, zero-padded to at least 3 digits
EsCodigoDe(prefijo, n, codigo) ==
    LET d == SubSeq(codigo, Len(prefijo) + 1, Len(codigo))
    IN /\ SubSeq(codigo, 1, Len(prefijo)) = prefijo
       /\ Len(d) >= 3
       /\ \A i \in 1..Len(d) : d[i] \in {"0","1","2","3","4","5","6","7","8","9"}
       /\ Len(d) > 3 => d[1] # "0"
       /\ Decimal(d) = n

\* the supplier or location entities of a success response
Entidades(r) ==
    IF Campo(r, "datos").t = "array"
    THEN { Campo(r, "datos").v[i].v : i \in 1..Len(Campo(r, "datos").v) }
    ELSE { Campo(r, "datos").v }

PrefijoCodigo ==
    IF manejador \in {"obtenerProveedores", "obtenerProveedorPorCodigo"}
    THEN <<"P","R","O","V">> ELSE <<"U","B">>

\* C8: every supplier or location a handler returns carries the codigo PROV
\* (supplier) or UB (location) followed by its id in decimal, zero-padded to
\* at least 3 digits and never cut; so the code is a function of the id, and
\* two returned rows with different ids have different codes.
C8_CodigoSintetico ==
    (/\ manejador \in {"obtenerProveedores", "obtenerProveedorPorCodigo",
                       "obtenerUbicaciones", "obtenerUbicacionesPorPlanta"}
     /\ UnaRespuesta
     /\ R.status = 200) =>
        /\ \A e \in Entidades(R) : EsCodigoDe(PrefijoCodigo, e.id.v, e.codigo.v)
        /\ \A e, f \in Entidades(R) : e.id # f.id => e.codigo # f.codigo

C8_Witness ==
    /\ manejador = "obtenerProveedores"
    /\ UnaRespuesta
    /\ R.status = 200
    /\ \E e \in Entidades(R) :
         e.id = Num(1234) /\ e.codigo = Str(<<"P","R","O","V","1","2","3","4">>)

\* no query of the invocation was failed by the data store
SinFalloDelAlmacen ==
    \A i \in DOMAIN promesas :
        promesas[i].estado = "rechazada" => promesas[i].motivo # "almacen"

\* C9, as the claim states it: when the store fails none of its queries, the
\* summary reports as temporadaActiva the title of a season with activo true
\* (what obtenerTemporadaActiva returns as nombre), and null exactly when no
\* season has activo true (when obtenerTemporadaActiva answers 404).
C9_TemporadaActivaCoincide ==
    (manejador = "obtenerResumenMantenedores" /\ pc = "hecho" /\ SinFalloDelAlmacen) =>
        /\ UnaRespuesta
        /\ R.status = 200
        /\ "temporadaActiva" \in DOMAIN Campo(R, "datos").v
        /\ LET activas == { f \in temporadas_app : f.activo }
               t == Campo(R, "datos").v.temporadaActiva
           IN IF activas = {} THEN t = Null
              ELSE \E f \in activas : t = Str(f.title)

\* C10: with the query resolved, asking supplier by code for the codigo that
\* the supplier listing shows for an active supplier s answers 200 with that
\* same supplier, whatever else the store holds.
C10_IdaYVuelta ==
    (manejador = "obtenerProveedorPorCodigo" /\ UnaRespuesta /\ TodasCumplidas) =>
        \A s \in proveedores :
            (s.activo /\ req.params.codigo = stringify(proveedorFormateado(s)).v.codigo) =>
                /\ R.status = 200
                /\ Campo(R, "datos") = stringify(proveedorFormateado(s))

C10_Witness ==
    /\ manejador = "obtenerProveedorPorCodigo"
    /\ req.params.codigo = Str(<<"P","R","O","V","0","0","7">>)
    /\ \E s \in proveedores : s.id = 12
    /\ UnaRespuesta
    /\ R.status = 200
    /\ Campo(R, "datos").v.id = Num(7)
    /\ Campo(R, "datos").v.nombre = Str(<<"A","c","m","e">>)

====
